---- MODULE Spec2Model ----
(***************************************************************************)
(* Model of the payments engine: the Ledger (src/src/ledger.rs) applying   *)
(* Transaction records (src/src/transaction.rs) to Client accounts         *)
(* (src/src/client.rs), driven record by record as main does               *)
(* (src/src/main.rs).                                                      *)
(*                                                                         *)
(* Amounts are f64 in the source.  They are modelled as exact integers     *)
(* (multiples of the smallest unit); rounding, NaN and infinities are not  *)
(* modelled.  Option<f64> is a sequence: <<>> is None and <<a>> is Some(a).*)
(***************************************************************************)
EXTENDS Integers, FiniteSets, Sequences, TLC

\* ---- bounds of the model ----
MaxClient == 2
MaxTx == 2
MaxAmount == 1
NegAmount == 1
MaxSteps == 3
WfSteps == 6

Clients == 1..MaxClient
TxIds == 1..MaxTx
Amounts == (0 - NegAmount)..MaxAmount

\* Option<f64>
None == <<>>
Some(a) == <<a>>
is_some(o) == o # <<>>
unwrap(o) == o[1]

VARIABLES
    transaction_table,      \* Ledger.transaction_table : tx id -> Transaction
    client_table,           \* Ledger.client_table : client id -> Client
    result,                 \* what the last apply_transaction returned
    last_tx,                \* the record the last apply_transaction was given
    prev_transaction_table, \* transaction_table before the last call
    prev_client_table,      \* client_table before the last call
    under_dispute,          \* tx ids of deposits with an open dispute
    prev_under_dispute,     \* under_dispute before the last call
    deposited,              \* per client: sum of amounts of applied deposits
    withdrawn,              \* per client: sum of amounts of applied withdrawals
    charged,                \* per client: sum of amounts charged back
    charged_back,           \* clients whose account a chargeback succeeded on
    deposit_clients,        \* client ids of the deposit records passed to apply
    cursor,                 \* reference scenario: records read of each stream
    steps                   \* number of records read so far

vars == <<transaction_table, client_table, result, last_tx,
          prev_transaction_table, prev_client_table, under_dispute,
          prev_under_dispute, deposited, withdrawn, charged, charged_back,
          deposit_clients, cursor, steps>>

\* ---- maps ----
EmptyMap == [k \in {} |-> 0]
Insert(m, k, v) == [x \in (DOMAIN m) \cup {k} |-> IF x = k THEN v ELSE m[x]]

\* ---- transaction.rs ----
Transaction(tx_type, client, tx, amount) ==
    [tx_type |-> tx_type, client |-> client, amount |-> amount, tx |-> tx]

\* ---- client.rs ----
from_id(id) == [id |-> id, available |-> 0, held |-> 0, locked |-> FALSE]

is_sign_negative(a) == a < 0
abs(a) == IF a < 0 THEN 0 - a ELSE a

total(c) == c.available + c.held

deposit_nocheck(c, amount) ==
    [err |-> "Ok", client |-> [c EXCEPT !.available = c.available + amount]]

deposit_refuses_locked(c, amount) ==
    IF c.locked \/ (is_sign_negative(amount) /\ abs(amount) > c.available)
    THEN [err |-> "InsufficientFunds", client |-> c]
    ELSE [err |-> "Ok", client |-> [c EXCEPT !.available = c.available + amount]]

deposit(c, amount) ==
    IF is_sign_negative(amount) /\ abs(amount) > c.available
    THEN [err |-> "InsufficientFunds", client |-> c]
    ELSE [err |-> "Ok", client |-> [c EXCEPT !.available = c.available + amount]]

hold_keeps_available(c, amount) ==
    IF is_sign_negative(amount)
    THEN IF abs(amount) > c.held
         THEN [err |-> "InsufficientFunds", client |-> c]
         ELSE [err |-> "Ok", client |-> [c EXCEPT !.held = c.held + amount]]
    ELSE IF amount > c.available
         THEN [err |-> "InsufficientFunds", client |-> c]
         ELSE [err |-> "Ok", client |-> [c EXCEPT !.held = c.held + amount]]

hold_release_nocheck(c, amount) ==
    IF ~is_sign_negative(amount) /\ amount > c.available
    THEN [err |-> "InsufficientFunds", client |-> c]
    ELSE [err |-> "Ok",
          client |-> [c EXCEPT !.held = c.held + amount,
                               !.available = c.available - amount]]

hold(c, amount) ==
    IF is_sign_negative(amount)
    THEN IF abs(amount) > c.held
         THEN [err |-> "InsufficientFunds", client |-> c]
         ELSE [err |-> "Ok",
               client |-> [c EXCEPT !.held = c.held + amount,
                                    !.available = c.available - amount]]
    ELSE IF amount > c.available
         THEN [err |-> "InsufficientFunds", client |-> c]
         ELSE [err |-> "Ok",
               client |-> [c EXCEPT !.held = c.held + amount,
                                    !.available = c.available - amount]]

chargeback_keeps_held(c, amount) ==
    IF is_sign_negative(amount)
    THEN [err |-> "IncorrectSign", client |-> c]
    ELSE IF amount > c.held
         THEN [err |-> "InsufficientFunds", client |-> c]
         ELSE [err |-> "Ok", client |-> [c EXCEPT !.locked = TRUE]]

chargeback_no_lock(c, amount) ==
    IF is_sign_negative(amount)
    THEN [err |-> "IncorrectSign", client |-> c]
    ELSE IF amount > c.held
         THEN [err |-> "InsufficientFunds", client |-> c]
         ELSE [err |-> "Ok", client |-> [c EXCEPT !.held = c.held - amount]]

chargeback(c, amount) ==
    IF is_sign_negative(amount)
    THEN [err |-> "IncorrectSign", client |-> c]
    ELSE IF amount > c.held
         THEN [err |-> "InsufficientFunds", client |-> c]
         ELSE IF abs(amount) > c.held
              THEN [err |-> "InsufficientFunds", client |-> c]
              ELSE [err |-> "Ok",
                    client |-> [c EXCEPT !.held = c.held - amount,
                                         !.locked = TRUE]]

\* ---- ledger.rs: lookups ----
\* A Result is a record with field err; "Ok" carries the value.
init_client(ct, id) ==
    IF id \in DOMAIN ct THEN ct ELSE Insert(ct, id, from_id(id))

get_client(ct, id) ==
    IF id \in DOMAIN ct
    THEN [err |-> "Ok", client |-> ct[id]]
    ELSE [err |-> "MissingClient", client |-> from_id(id)]

get_transaction_wrong_error(tt, id) ==
    IF id \in DOMAIN tt
    THEN [err |-> "Ok", tx |-> tt[id]]
    ELSE [err |-> "MissingClient", tx |-> Transaction("none", 0, id, None)]

get_transaction(tt, id) ==
    IF id \in DOMAIN tt
    THEN [err |-> "Ok", tx |-> tt[id]]
    ELSE [err |-> "MissingTransaction", tx |-> Transaction("none", 0, id, None)]

get_tx_amount_type(tt, id) ==
    LET t == get_transaction(tt, id) IN
    IF t.err # "Ok"
    THEN [err |-> t.err, amount |-> 0, tx_type |-> "none"]
    ELSE IF is_some(t.tx.amount)
         THEN [err |-> "Ok", amount |-> unwrap(t.tx.amount),
               tx_type |-> t.tx.tx_type]
         ELSE [err |-> "MissingTransactionAmount", amount |-> 0,
               tx_type |-> "none"]

\* The value apply_transaction leaves behind: its return value and the two
\* tables of the ledger.
Outcome(res, tt, ct) ==
    [result |-> res, transaction_table |-> tt, client_table |-> ct]

\* Run a Client method on the account of tx.client, as
\* "let c = self.get_client(..)?; c.method(..)?" does.
OnClient(tt, ct, id, r) ==
    IF r.err # "Ok"
    THEN Outcome(r.err, tt, ct)
    ELSE Outcome("Ok", tt, [ct EXCEPT ![id] = r.client])

\* ---- ledger.rs: apply_transaction, one arm per TransactionType ----
apply_deposit_checks_first(tt, ct, tx) ==
    LET ct1 == init_client(ct, tx.client)
        g == get_client(ct1, tx.client)
    IN IF g.err # "Ok" THEN Outcome(g.err, tt, ct)
       ELSE IF ~is_some(tx.amount) THEN Outcome("Panic", tt, ct)
       ELSE LET r == deposit(g.client, unwrap(tx.amount))
            IN IF r.err # "Ok" THEN Outcome(r.err, tt, ct)
               ELSE Outcome("Ok", Insert(tt, tx.tx, tx),
                            [ct1 EXCEPT ![tx.client] = r.client])

apply_deposit(tt, ct, tx) ==
    LET ct1 == init_client(ct, tx.client)
        g == get_client(ct1, tx.client)
    IN IF g.err # "Ok" THEN Outcome(g.err, tt, ct1)
       ELSE IF ~is_some(tx.amount) THEN Outcome("Panic", tt, ct1)
       ELSE LET r == deposit(g.client, unwrap(tx.amount))
            IN IF r.err # "Ok" THEN Outcome(r.err, tt, ct1)
               ELSE Outcome("Ok", Insert(tt, tx.tx, tx),
                            [ct1 EXCEPT ![tx.client] = r.client])

apply_withdrawal_creates_client(tt, ct, tx) ==
    LET ct1 == init_client(ct, tx.client)
        g == get_client(ct1, tx.client)
    IN IF g.err # "Ok" THEN Outcome(g.err, tt, ct1)
       ELSE IF ~is_some(tx.amount) THEN Outcome("Panic", tt, ct1)
       ELSE LET r == deposit(g.client, 0 - unwrap(tx.amount))
            IN IF r.err # "Ok" THEN Outcome(r.err, tt, ct1)
               ELSE Outcome("Ok", Insert(tt, tx.tx, tx),
                            [ct1 EXCEPT ![tx.client] = r.client])

apply_withdrawal_stores_first(tt, ct, tx) ==
    LET g == get_client(ct, tx.client)
        tt1 == Insert(tt, tx.tx, tx)
    IN IF g.err # "Ok" THEN Outcome(g.err, tt, ct)
       ELSE IF ~is_some(tx.amount) THEN Outcome("Panic", tt, ct)
       ELSE LET r == deposit(g.client, 0 - unwrap(tx.amount))
            IN IF r.err # "Ok" THEN Outcome(r.err, tt1, ct)
               ELSE Outcome("Ok", tt1, [ct EXCEPT ![tx.client] = r.client])

\* -amount of amount 0.0 is -0.0, which is sign-negative: deposit then
\* tests 0 > available, which is false of an available that is not negative,
\* so the integer 0 takes the same path.
apply_withdrawal(tt, ct, tx) ==
    LET g == get_client(ct, tx.client)
    IN IF g.err # "Ok" THEN Outcome(g.err, tt, ct)
       ELSE IF ~is_some(tx.amount) THEN Outcome("Panic", tt, ct)
       ELSE LET r == deposit(g.client, 0 - unwrap(tx.amount))
            IN IF r.err # "Ok" THEN Outcome(r.err, tt, ct)
               ELSE Outcome("Ok", Insert(tt, tx.tx, tx),
                            [ct EXCEPT ![tx.client] = r.client])

apply_dispute_stores(tt, ct, tx) ==
    IF tx.tx \in DOMAIN tt
    THEN LET ref_tx == tt[tx.tx]
         IN IF ref_tx.tx_type = "deposit"
            THEN IF is_some(ref_tx.amount)
                 THEN LET g == get_client(ct, tx.client)
                      IN IF g.err # "Ok" THEN Outcome(g.err, tt, ct)
                         ELSE OnClient(Insert(tt, tx.tx, tx), ct, tx.client,
                                       hold(g.client, unwrap(ref_tx.amount)))
                 ELSE Outcome("MissingTransactionAmount", tt, ct)
            ELSE Outcome("Ok", tt, ct)
    ELSE Outcome("Ok", tt, ct)

apply_dispute_strict(tt, ct, tx) ==
    IF tx.tx \in DOMAIN tt
    THEN LET ref_tx == tt[tx.tx]
         IN IF ref_tx.tx_type = "deposit"
            THEN IF is_some(ref_tx.amount)
                 THEN LET g == get_client(ct, tx.client)
                      IN IF g.err # "Ok" THEN Outcome(g.err, tt, ct)
                         ELSE OnClient(tt, ct, tx.client,
                                       hold(g.client, unwrap(ref_tx.amount)))
                 ELSE Outcome("MissingTransactionAmount", tt, ct)
            ELSE Outcome("Ok", tt, ct)
    ELSE Outcome("MissingTransaction", tt, ct)

apply_dispute_any_type(tt, ct, tx) ==
    IF tx.tx \in DOMAIN tt
    THEN LET ref_tx == tt[tx.tx]
         IN IF is_some(ref_tx.amount)
            THEN LET g == get_client(ct, tx.client)
                 IN IF g.err # "Ok" THEN Outcome(g.err, tt, ct)
                    ELSE OnClient(tt, ct, tx.client,
                                  hold(g.client, unwrap(ref_tx.amount)))
            ELSE Outcome("MissingTransactionAmount", tt, ct)
    ELSE Outcome("Ok", tt, ct)

apply_dispute(tt, ct, tx) ==
    IF tx.tx \in DOMAIN tt
    THEN LET ref_tx == tt[tx.tx]
         IN IF ref_tx.tx_type = "deposit"
            THEN IF is_some(ref_tx.amount)
                 THEN LET g == get_client(ct, tx.client)
                      IN IF g.err # "Ok" THEN Outcome(g.err, tt, ct)
                         ELSE OnClient(tt, ct, tx.client,
                                       hold(g.client, unwrap(ref_tx.amount)))
                 ELSE Outcome("MissingTransactionAmount", tt, ct)
            ELSE Outcome("Ok", tt, ct)
    ELSE Outcome("Ok", tt, ct)

apply_resolve_no_negate(tt, ct, tx) ==
    LET at == get_tx_amount_type(tt, tx.tx)
    IN IF at.err # "Ok" THEN Outcome(at.err, tt, ct)
       ELSE IF at.tx_type = "deposit"
            THEN LET g == get_client(ct, tx.client)
                 IN IF g.err # "Ok" THEN Outcome(g.err, tt, ct)
                    ELSE OnClient(tt, ct, tx.client,
                                  hold(g.client, at.amount))
            ELSE Outcome("Ok", tt, ct)

apply_resolve(tt, ct, tx) ==
    LET at == get_tx_amount_type(tt, tx.tx)
    IN IF at.err # "Ok" THEN Outcome(at.err, tt, ct)
       ELSE IF at.tx_type = "deposit"
            THEN LET g == get_client(ct, tx.client)
                 IN IF g.err # "Ok" THEN Outcome(g.err, tt, ct)
                    ELSE OnClient(tt, ct, tx.client,
                                  hold(g.client, 0 - at.amount))
            ELSE Outcome("Ok", tt, ct)

apply_chargeback(tt, ct, tx) ==
    LET at == get_tx_amount_type(tt, tx.tx)
    IN IF at.err # "Ok" THEN Outcome(at.err, tt, ct)
       ELSE IF at.tx_type = "deposit"
            THEN LET g == get_client(ct, tx.client)
                 IN IF g.err # "Ok" THEN Outcome(g.err, tt, ct)
                    ELSE OnClient(tt, ct, tx.client,
                                  chargeback(g.client, at.amount))
            ELSE Outcome("Ok", tt, ct)

apply_transaction(tt, ct, tx) ==
    CASE tx.tx_type = "deposit" -> apply_deposit(tt, ct, tx)
      [] tx.tx_type = "withdrawal" -> apply_withdrawal(tt, ct, tx)
      [] tx.tx_type = "dispute" -> apply_dispute(tt, ct, tx)
      [] tx.tx_type = "resolve" -> apply_resolve(tt, ct, tx)
      [] tx.tx_type = "chargeback" -> apply_chargeback(tt, ct, tx)

\* ---- bookkeeping about the run (not program state) ----
\* the record apply_transaction looked up in history, if it is a deposit
RefersToDeposit(tt, tx) ==
    /\ tx.tx \in DOMAIN tt
    /\ tt[tx.tx].tx_type = "deposit"

\* A deposit is under dispute from a successful dispute on it until a
\* successful resolve or chargeback on it; a deposit or withdrawal stored
\* under the same tx id is a new record, not under dispute.
NextUnderDispute(ud, tt, tx, res) ==
    IF res # "Ok" THEN ud
    ELSE CASE tx.tx_type \in {"deposit", "withdrawal"} -> ud \ {tx.tx}
           [] tx.tx_type = "dispute" ->
                IF RefersToDeposit(tt, tx) THEN ud \cup {tx.tx} ELSE ud
           [] tx.tx_type \in {"resolve", "chargeback"} ->
                IF RefersToDeposit(tt, tx) THEN ud \ {tx.tx} ELSE ud

Add(f, c, a) == [f EXCEPT ![c] = f[c] + a]

\* ---- main.rs: the loop over the records of the input ----
\* The streams the records of the reference scenario are read from.
Streams == {"client1", "client2", "stray"}

NoTx == Transaction("none", 0, 0, None)

Init ==
    /\ transaction_table = EmptyMap
    /\ client_table = EmptyMap
    /\ result = "Ok"
    /\ last_tx = NoTx
    /\ prev_transaction_table = EmptyMap
    /\ prev_client_table = EmptyMap
    /\ under_dispute = {}
    /\ prev_under_dispute = {}
    /\ deposited = [c \in Clients |-> 0]
    /\ withdrawn = [c \in Clients |-> 0]
    /\ charged = [c \in Clients |-> 0]
    /\ charged_back = {}
    /\ deposit_clients = {}
    /\ cursor = [s \in Streams |-> 0]
    /\ steps = 0

\* One turn of the loop: main unwraps every result, so the first error ends
\* the run.  limit bounds the number of records of the input.
Apply(tx, limit) ==
    /\ result = "Ok"
    /\ steps < limit
    /\ LET r == apply_transaction(transaction_table, client_table, tx)
       IN /\ transaction_table' = r.transaction_table
          /\ client_table' = r.client_table
          /\ result' = r.result
          /\ under_dispute' =
                NextUnderDispute(under_dispute, transaction_table, tx, r.result)
          /\ deposited' =
                IF r.result = "Ok" /\ tx.tx_type = "deposit"
                THEN Add(deposited, tx.client, unwrap(tx.amount))
                ELSE deposited
          /\ withdrawn' =
                IF r.result = "Ok" /\ tx.tx_type = "withdrawal"
                THEN Add(withdrawn, tx.client, unwrap(tx.amount))
                ELSE withdrawn
          /\ charged' =
                IF /\ r.result = "Ok"
                   /\ tx.tx_type = "chargeback"
                   /\ RefersToDeposit(transaction_table, tx)
                THEN Add(charged, tx.client,
                         unwrap(transaction_table[tx.tx].amount))
                ELSE charged
          /\ charged_back' =
                IF /\ r.result = "Ok"
                   /\ tx.tx_type = "chargeback"
                   /\ RefersToDeposit(transaction_table, tx)
                THEN charged_back \cup {tx.client}
                ELSE charged_back
    /\ deposit_clients' =
          IF tx.tx_type = "deposit"
          THEN deposit_clients \cup {tx.client}
          ELSE deposit_clients
    /\ last_tx' = tx
    /\ prev_transaction_table' = transaction_table
    /\ prev_client_table' = client_table
    /\ prev_under_dispute' = under_dispute
    /\ steps' = steps + 1

OptAmounts == {Some(a) : a \in Amounts} \cup {None}

\* Any input the reader can decode.  Client and tx ids are only keys of the
\* two tables, so renaming them maps runs to runs: of the runs that differ by
\* a renaming, those are enumerated in which the k-th record names no id
\* above k.
IdsAt(S) == {x \in S : x <= steps + 1}

Deposit ==
    \E c \in IdsAt(Clients), t \in IdsAt(TxIds), a \in OptAmounts :
        /\ Apply(Transaction("deposit", c, t, a), MaxSteps)
        /\ UNCHANGED cursor

Withdrawal ==
    \E c \in IdsAt(Clients), t \in IdsAt(TxIds), a \in OptAmounts :
        /\ Apply(Transaction("withdrawal", c, t, a), MaxSteps)
        /\ UNCHANGED cursor

Dispute ==
    \E c \in IdsAt(Clients), t \in IdsAt(TxIds) :
        /\ Apply(Transaction("dispute", c, t, None), MaxSteps)
        /\ UNCHANGED cursor

Resolve ==
    \E c \in IdsAt(Clients), t \in IdsAt(TxIds) :
        /\ Apply(Transaction("resolve", c, t, None), MaxSteps)
        /\ UNCHANGED cursor

Chargeback ==
    \E c \in IdsAt(Clients), t \in IdsAt(TxIds) :
        /\ Apply(Transaction("chargeback", c, t, None), MaxSteps)
        /\ UNCHANGED cursor

Next == Deposit \/ Withdrawal \/ Dispute \/ Resolve \/ Chargeback

Spec == Init /\ [][Next]_vars

\* The same loop over an input that is well formed: every deposit and
\* withdrawal carries a positive amount and a tx id not used before, and a
\* dispute, resolve or chargeback names the client of the record it refers to.
FreshTx == TxIds \ DOMAIN transaction_table
PosAmounts == 1..MaxAmount
NamesOwner(c, t) ==
    t \in DOMAIN transaction_table => transaction_table[t].client = c

WfDeposit ==
    \E c \in Clients, t \in FreshTx, a \in PosAmounts :
        /\ Apply(Transaction("deposit", c, t, Some(a)), WfSteps)
        /\ UNCHANGED cursor

WfWithdrawal ==
    \E c \in Clients, t \in FreshTx, a \in PosAmounts :
        /\ Apply(Transaction("withdrawal", c, t, Some(a)), WfSteps)
        /\ UNCHANGED cursor

WfDispute ==
    \E c \in Clients, t \in TxIds :
        /\ NamesOwner(c, t)
        /\ Apply(Transaction("dispute", c, t, None), WfSteps)
        /\ UNCHANGED cursor

WfResolve ==
    \E c \in Clients, t \in TxIds :
        /\ NamesOwner(c, t)
        /\ Apply(Transaction("resolve", c, t, None), WfSteps)
        /\ UNCHANGED cursor

WfChargeback ==
    \E c \in Clients, t \in TxIds :
        /\ NamesOwner(c, t)
        /\ Apply(Transaction("chargeback", c, t, None), WfSteps)
        /\ UNCHANGED cursor

NextWf == WfDeposit \/ WfWithdrawal \/ WfDispute \/ WfResolve \/ WfChargeback

SpecWf == Init /\ [][NextWf]_vars

\* The loop over an input whose deposits and withdrawals are well formed as
\* above, and whose disputes, resolves and chargebacks name any client.
AnyDispute ==
    \E c \in Clients, t \in TxIds :
        /\ Apply(Transaction("dispute", c, t, None), WfSteps)
        /\ UNCHANGED cursor

AnyResolve ==
    \E c \in Clients, t \in TxIds :
        /\ Apply(Transaction("resolve", c, t, None), WfSteps)
        /\ UNCHANGED cursor

AnyChargeback ==
    \E c \in Clients, t \in TxIds :
        /\ Apply(Transaction("chargeback", c, t, None), WfSteps)
        /\ UNCHANGED cursor

NextAny ==
    WfDeposit \/ WfWithdrawal \/ AnyDispute \/ AnyResolve \/ AnyChargeback

SpecAny == Init /\ [][NextAny]_vars

\* The loop over the input of tests::test_apply_transactions.  The records
\* of client 1, those of client 2 and the dispute of the unknown tx 999 are
\* read in their own order, merged in any way; the order of the test is one
\* of the merges.
RefStream(s) ==
    CASE s = "client1" ->
            << Transaction("deposit", 1, 1, Some(10)),
               Transaction("deposit", 1, 2, Some(5)),
               Transaction("withdrawal", 1, 3, Some(1)),
               Transaction("dispute", 1, 2, None),
               Transaction("resolve", 1, 2, None),
               Transaction("withdrawal", 1, 3, Some(1)),
               Transaction("dispute", 1, 2, None),
               Transaction("chargeback", 1, 2, None) >>
      [] s = "client2" ->
            << Transaction("deposit", 2, 4, Some(10)),
               Transaction("withdrawal", 2, 5, Some(5)),
               Transaction("deposit", 2, 6, Some(5)),
               Transaction("dispute", 2, 6, None) >>
      [] s = "stray" ->
            << Transaction("dispute", 1, 999, None) >>

RefLen ==
    Len(RefStream("client1")) + Len(RefStream("client2"))
        + Len(RefStream("stray"))

ReadFrom(s) ==
    /\ cursor[s] < Len(RefStream(s))
    /\ Apply(RefStream(s)[cursor[s] + 1], RefLen)
    /\ cursor' = [cursor EXCEPT ![s] = cursor[s] + 1]

RefClient1 == ReadFrom("client1")
RefClient2 == ReadFrom("client2")
RefStray == ReadFrom("stray")

NextRef == RefClient1 \/ RefClient2 \/ RefStray

SpecRef == Init /\ [][NextRef]_vars

RefDone == \A s \in Streams : cursor[s] = Len(RefStream(s))

TypeOK ==
    /\ DOMAIN client_table \subseteq Clients
    /\ under_dispute \subseteq DOMAIN transaction_table

\* ---- the last call, as the properties below read it ----
IsLast(kind) == last_tx.tx_type = kind
HadAccount == last_tx.client \in DOMAIN prev_client_table
HasAccount == last_tx.client \in DOMAIN client_table
WasInHistory == last_tx.tx \in DOMAIN prev_transaction_table
RefTx == prev_transaction_table[last_tx.tx]
RefAmount == unwrap(RefTx.amount)
Before == prev_client_table[last_tx.client]
After == client_table[last_tx.client]
LedgerUnchanged ==
    /\ client_table = prev_client_table
    /\ transaction_table = prev_transaction_table

\* C1: a dispute record whose tx id maps in history to a deposit of amount a,
\* with 0 <= a <= available of the account the record names, succeeds; it
\* lowers available by a and raises held by a, and leaves total, locked and
\* the history as they were.
C1_DisputeCase ==
    /\ IsLast("dispute")
    /\ WasInHistory
    /\ RefTx.tx_type = "deposit"
    /\ HadAccount
    /\ 0 <= RefAmount
    /\ RefAmount <= Before.available

C1_DisputeHoldsDeposit ==
    C1_DisputeCase =>
        /\ result = "Ok"
        /\ After.available = Before.available - RefAmount
        /\ After.held = Before.held + RefAmount
        /\ total(After) = total(Before)
        /\ After.locked = Before.locked
        /\ transaction_table = prev_transaction_table

C1_Witness ==
    /\ C1_DisputeCase
    /\ RefAmount > 0
    /\ result = "Ok"
    /\ After.held = Before.held + RefAmount

\* C2 (as claimed): a resolve record applied to a deposit that is under
\* dispute succeeds, lowers held by the deposit's amount, raises available
\* by it, and leaves total and locked as they were.
C2_ResolveCase ==
    /\ IsLast("resolve")
    /\ WasInHistory
    /\ RefTx.tx_type = "deposit"
    /\ last_tx.tx \in prev_under_dispute

C2_ResolveReleasesDeposit ==
    C2_ResolveCase =>
        /\ result = "Ok"
        /\ HadAccount
        /\ After.held = Before.held - RefAmount
        /\ After.available = Before.available + RefAmount
        /\ total(After) = total(Before)
        /\ After.locked = Before.locked

\* C3 (as claimed): a chargeback record applied to a deposit that is under
\* dispute succeeds, lowers held by the deposit's amount, leaves available,
\* lowers total by the amount and sets locked.
C3_ChargebackCase ==
    /\ IsLast("chargeback")
    /\ WasInHistory
    /\ RefTx.tx_type = "deposit"
    /\ last_tx.tx \in prev_under_dispute

C3_ChargebackForfeitsDeposit ==
    C3_ChargebackCase =>
        /\ result = "Ok"
        /\ HadAccount
        /\ After.held = Before.held - RefAmount
        /\ After.available = Before.available
        /\ total(After) = total(Before) - RefAmount
        /\ After.locked = TRUE

\* C4 (as claimed): a resolve or chargeback that references a deposit which
\* is not under dispute changes no balance and no locked flag.
C4_ClosedCase ==
    /\ IsLast("resolve") \/ IsLast("chargeback")
    /\ WasInHistory
    /\ RefTx.tx_type = "deposit"
    /\ last_tx.tx \notin prev_under_dispute

C4_OnlyOpenDisputeCloses ==
    C4_ClosedCase => client_table = prev_client_table

\* C5: a dispute record whose tx id is not in history succeeds and leaves
\* the accounts and the history as they were, with or without an account
\* for the record's client.
C5_DisputeCase ==
    /\ IsLast("dispute")
    /\ ~WasInHistory

C5_DisputeUnknownTxIsNoOp ==
    C5_DisputeCase => result = "Ok" /\ LedgerUnchanged

C5_Witness ==
    /\ C5_DisputeCase
    /\ result = "Ok"
    /\ ~HasAccount
    /\ \E c \in DOMAIN client_table : client_table[c].available > 0

\* C6: a resolve or chargeback record whose tx id is not in history returns
\* MissingTransaction, also without an account for the record's client, and
\* leaves the accounts and the history as they were.
C6_UnknownCase ==
    /\ IsLast("resolve") \/ IsLast("chargeback")
    /\ ~WasInHistory

C6_CloseUnknownTxIsError ==
    C6_UnknownCase => result = "MissingTransaction" /\ LedgerUnchanged

C6_Witness ==
    /\ C6_UnknownCase
    /\ IsLast("chargeback")
    /\ ~HadAccount
    /\ result = "MissingTransaction"
    /\ \E c \in DOMAIN client_table : client_table[c].held > 0

\* C7: a withdrawal of more than the available funds of an existing account
\* returns InsufficientFunds, leaves the account as it was and stores
\* nothing in history.
C7_WithdrawalCase ==
    /\ IsLast("withdrawal")
    /\ HadAccount
    /\ is_some(last_tx.amount)
    /\ unwrap(last_tx.amount) > Before.available

C7_OverdrawIsRefused ==
    C7_WithdrawalCase =>
        /\ result = "InsufficientFunds"
        /\ After = Before
        /\ transaction_table = prev_transaction_table

C7_Witness ==
    /\ C7_WithdrawalCase
    /\ unwrap(last_tx.amount) > 0
    /\ result = "InsufficientFunds"

\* C8: a withdrawal for a client without an account returns MissingClient,
\* creates no account and stores nothing in history.
C8_WithdrawalCase ==
    /\ IsLast("withdrawal")
    /\ ~HadAccount

C8_WithdrawalNeedsAccount ==
    C8_WithdrawalCase =>
        /\ result = "MissingClient"
        /\ ~HasAccount
        /\ transaction_table = prev_transaction_table

C8_Witness ==
    /\ C8_WithdrawalCase
    /\ is_some(last_tx.amount)
    /\ result = "MissingClient"
    /\ client_table # EmptyMap

\* C9: a dispute record whose tx id maps in history to a withdrawal succeeds
\* and leaves the accounts and the history as they were.
C9_DisputeCase ==
    /\ IsLast("dispute")
    /\ WasInHistory
    /\ RefTx.tx_type = "withdrawal"

C9_DisputeOfWithdrawalIsNoOp ==
    C9_DisputeCase => result = "Ok" /\ LedgerUnchanged

C9_Witness ==
    /\ C9_DisputeCase
    /\ result = "Ok"
    /\ HadAccount
    /\ RefAmount > 0

\* C10: each account's total is the sum of the deposits applied for the
\* client, less the sum of the withdrawals applied for it, less the sum of
\* the amounts its chargebacks removed; dispute and resolve leave every
\* total as it was.
C10_FundsConserved ==
    /\ \A c \in DOMAIN client_table :
          total(client_table[c]) = deposited[c] - withdrawn[c] - charged[c]
    /\ IsLast("dispute") \/ IsLast("resolve") =>
          \A c \in DOMAIN prev_client_table :
              total(client_table[c]) = total(prev_client_table[c])

C10_Witness ==
    \E c \in DOMAIN client_table :
        /\ charged[c] > 0
        /\ deposited[c] > 0
        /\ client_table[c].locked

\* C11: an account is locked exactly when a chargeback record referring to
\* a deposit has succeeded on it, and a locked account stays locked.
C11_LockedByChargeback ==
    /\ \A c \in DOMAIN client_table :
          client_table[c].locked <=> c \in charged_back
    /\ \A c \in DOMAIN prev_client_table :
          prev_client_table[c].locked =>
              c \in DOMAIN client_table /\ client_table[c].locked

C11_Witness ==
    /\ HadAccount
    /\ Before.locked
    /\ IsLast("deposit")
    /\ result = "Ok"
    /\ After.locked

\* C12: every key of history maps to a deposit or withdrawal record, and a
\* dispute, resolve or chargeback record leaves history as it was.
C12_HistoryHoldsMoves ==
    /\ \A t \in DOMAIN transaction_table :
          /\ transaction_table[t].tx_type \in {"deposit", "withdrawal"}
          /\ transaction_table[t].tx = t
    /\ IsLast("dispute") \/ IsLast("resolve") \/ IsLast("chargeback") =>
          transaction_table = prev_transaction_table

C12_Witness ==
    /\ IsLast("dispute")
    /\ result = "Ok"
    /\ WasInHistory
    /\ HadAccount
    /\ After.held > Before.held

\* C13: the clients with an account are the clients named by the deposit
\* records passed to apply_transaction; only a deposit for a client without
\* an account creates one, with nothing available or held and unlocked
\* before the deposit is added, and no account is removed.
C13_AccountsFromDeposits ==
    /\ DOMAIN client_table = deposit_clients
    /\ DOMAIN prev_client_table \subseteq DOMAIN client_table
    /\ ~IsLast("deposit") => DOMAIN client_table = DOMAIN prev_client_table
    /\ IsLast("deposit") /\ ~HadAccount =>
          /\ HasAccount
          /\ After.held = 0
          /\ After.locked = FALSE
          /\ After.available =
                IF result = "Ok" THEN unwrap(last_tx.amount) ELSE 0

C13_Witness ==
    /\ IsLast("deposit")
    /\ ~HadAccount
    /\ prev_client_table # EmptyMap
    /\ result = "InsufficientFunds"
    /\ HasAccount

\* C14 (as claimed): no call of apply_transaction returns IncorrectSign,
\* whatever the amounts of the records, negative ones included.
C14_NoIncorrectSign == result # "IncorrectSign"

\* C15: the locked flag does not block or alter processing: from two
\* ledgers that differ only in the locked flag of one account, every record
\* gets the same result and leaves the same available and held funds and
\* the same history.
LockFlipped(ct, c) == [ct EXCEPT ![c].locked = ~ct[c].locked]

SameFunds(ct1, ct2) ==
    /\ DOMAIN ct1 = DOMAIN ct2
    /\ \A c \in DOMAIN ct1 :
          /\ ct1[c].available = ct2[c].available
          /\ ct1[c].held = ct2[c].held

\* The last call is compared with the same call on the ledger it started
\* from with the locked flag of one account inverted.
C15_LockedIsInert ==
    \A c \in DOMAIN prev_client_table :
        LET b == apply_transaction(prev_transaction_table,
                                   LockFlipped(prev_client_table, c), last_tx)
        IN /\ b.result = result
           /\ SameFunds(b.client_table, client_table)
           /\ b.transaction_table = transaction_table

C15_Witness ==
    /\ HadAccount
    /\ Before.locked
    /\ result = "Ok"
    /\ After.available # Before.available

\* C16: in the reference scenario every call of apply_transaction succeeds,
\* and after the last record there are exactly two accounts: account 1 with
\* 8 available, 0 held and locked, account 2 with 5 available, 5 held and
\* not locked.
RefExpected ==
    Insert(Insert(EmptyMap, 1,
                  [id |-> 1, available |-> 8, held |-> 0, locked |-> TRUE]),
           2, [id |-> 2, available |-> 5, held |-> 5, locked |-> FALSE])

C16_ReferenceScenario ==
    /\ result = "Ok"
    /\ RefDone => client_table = RefExpected

C16_Witness ==
    /\ RefDone
    /\ steps = RefLen
    /\ IsLast("dispute")
    /\ last_tx.tx = 999

\* C17 (as claimed): a dispute, resolve or chargeback record whose client
\* differs from the client of the deposit stored under its tx id changes no
\* account's available, held or locked.
C17_OtherClientCase ==
    /\ IsLast("dispute") \/ IsLast("resolve") \/ IsLast("chargeback")
    /\ WasInHistory
    /\ RefTx.tx_type = "deposit"
    /\ RefTx.client # last_tx.client

C17_OnlyOwnerIsTouched ==
    C17_OtherClientCase => client_table = prev_client_table

\* C18: no account ever has negative available or negative held funds,
\* whatever the records, deposits and withdrawals of negative amounts
\* included.
C18_FundsNotNegative ==
    \A c \in DOMAIN client_table :
        /\ client_table[c].available >= 0
        /\ client_table[c].held >= 0

C18_Witness ==
    /\ IsLast("deposit") \/ IsLast("withdrawal")
    /\ is_some(last_tx.amount)
    /\ unwrap(last_tx.amount) < 0
    /\ result = "Ok"
    /\ HadAccount
    /\ After.available # Before.available
    /\ \E c \in DOMAIN client_table : client_table[c].held > 0

\* C19 (as claimed): when apply_transaction returns an error, the set of
\* accounts, every account and the history are as they were before the call.
ApplyErrors ==
    {"MissingClient", "MissingTransaction", "MissingTransactionAmount",
     "InsufficientFunds", "IncorrectSign"}

C19_ErrorChangesNothing ==
    result \in ApplyErrors => LedgerUnchanged

\* C19 (amended): when apply_transaction returns an error, the history and
\* every account that existed before the call are as they were; the only
\* change is that a refused deposit for a client without an account leaves
\* that client a new account with nothing available or held, unlocked.
C19_ErrorKeepsFunds ==
    result \in ApplyErrors =>
        /\ transaction_table = prev_transaction_table
        /\ \A c \in DOMAIN prev_client_table :
              c \in DOMAIN client_table /\ client_table[c] = prev_client_table[c]
        /\ \/ DOMAIN client_table = DOMAIN prev_client_table
           \/ /\ IsLast("deposit")
              /\ ~HadAccount
              /\ DOMAIN client_table =
                    DOMAIN prev_client_table \cup {last_tx.client}
              /\ After = from_id(last_tx.client)

C19_Witness ==
    /\ result \in ApplyErrors
    /\ IsLast("deposit")
    /\ ~HadAccount
    /\ HasAccount
    /\ After = from_id(last_tx.client)
    /\ \E c \in DOMAIN prev_client_table : prev_client_table[c].held > 0

\* C20 (as claimed): a dispute of a deposit that is already under dispute
\* moves nothing, and no account holds more than the sum of the amounts of
\* the deposits of its client that are under dispute.
RECURSIVE AmountSum(_, _)
AmountSum(tt, S) ==
    IF S = {} THEN 0
    ELSE LET t == CHOOSE x \in S : TRUE
         IN unwrap(tt[t].amount) + AmountSum(tt, S \ {t})

DisputedOf(c) ==
    {t \in under_dispute \cap DOMAIN transaction_table :
        transaction_table[t].client = c}

C20_HeldAtMostOnce ==
    /\ /\ IsLast("dispute")
       /\ WasInHistory
       /\ RefTx.tx_type = "deposit"
       /\ last_tx.tx \in prev_under_dispute
       => client_table = prev_client_table
    /\ \A c \in DOMAIN client_table :
          client_table[c].held <= AmountSum(transaction_table, DisputedOf(c))

====
